---- MODULE Spec2Model ----
(***************************************************************************)
(* Model of the distributed sliding-window rate limiter                    *)
(* (app/rate_limiter.py): the Redis sorted set per key, the Lua script     *)
(* SLIDING_WINDOW_SCRIPT executed atomically by the server, and the two    *)
(* methods allow_request and get_current_usage called by any number of     *)
(* client processes; and of the HTTP middleware (app/main.py, with the     *)
(* log calls of app/analytics.py) that calls them for each request.        *)
(*                                                                         *)
(* Time is one millisecond clock.  A caller reads it (time.time()) in one  *)
(* step and the server runs the script in a later step, so scripts may run *)
(* in an order different from the order of their timestamps.  A sorted set *)
(* is a set of [member, score] records with at most one record per member  *)
(* (ZADD upserts by member); a key whose set is empty does not exist and   *)
(* has no expiry.                                                          *)
(***************************************************************************)
EXTENDS Integers, Sequences, FiniteSets, TLC

VARIABLES clock,   \* server / wall clock, in milliseconds
          store,   \* key -> sorted set: set of [member, score]
          ttl,     \* key -> {} (no expiry) or {deadline in ms}
          pc,      \* process -> where it is in its call or request
          args,    \* process -> arguments of the allow_request in flight
          ret,     \* process -> value returned by its last call
          budget,  \* process -> allow_request calls it may still start
          hist,    \* script executions, in execution order (history)
          env,     \* the inputs the callers draw from (fixed by Init)
          mw       \* process -> the HTTP request its middleware handles

vars == <<clock, store, ttl, pc, args, ret, budget, hist, env, mw>>

(***************************************************************************)
(* Bounds of the model.                                                    *)
(***************************************************************************)
MaxTime  == 5    \* the clock runs over 0..MaxTime
MaxCalls == 4    \* allow_request calls of a single-threaded run
MaxProcs == 3    \* concurrent callers

(***************************************************************************)
(* Key composition, rate_limiter.py line 46 and 59.                        *)
(***************************************************************************)
Key(client_id, endpoint) == "rate:" \o client_id \o ":" \o endpoint

AllPairs == {<<"a", "c">>, <<"a:b", "c">>, <<"a", "b:c">>, <<"b", "c">>,
             <<"key:k", "/api/resource">>, <<"ip:h", "/api/resource">>}
Keys     == {Key(pr[1], pr[2]) : pr \in AllPairs}

(***************************************************************************)
(* The sorted-set commands the script and get_current_usage use.           *)
(***************************************************************************)
NegInf == "-inf"

\* A trim whose upper bound is exclusive, as "(max" would ask for.
ZREMRANGEBYSCORE_ExclusiveMax(z, min, max) ==
    {e \in z : ~((min = NegInf \/ e.score >= min) /\ e.score < max)}

\* ZREMRANGEBYSCORE key min max: both bounds are inclusive.
ZREMRANGEBYSCORE(z, min, max) ==
    {e \in z : ~((min = NegInf \/ e.score >= min) /\ e.score <= max)}

ZCARD(z) == Cardinality(z)

\* ZADD key score member: one record per member, the score is replaced.
ZADD(z, score, member) ==
    {e \in z : e.member # member} \cup {[member |-> member, score |-> score]}

\* A PEXPIRE that leaves the key without an expiry.
PEXPIRE_NoExpiry(z, ms, at) == [zset |-> z, ttl |-> {}]

\* A PEXPIRE whose expiry is due at once, whatever ms says.
PEXPIRE_Immediate(z, ms, at) ==
    IF z = {} THEN [zset |-> {}, ttl |-> {}] ELSE [zset |-> z, ttl |-> {at}]

\* PEXPIRE key ms at server time now: a non-positive ms deletes the key.
PEXPIRE(z, ms, at) ==
    IF z = {} THEN [zset |-> {}, ttl |-> {}]
    ELSE IF ms <= 0 THEN [zset |-> {}, ttl |-> {}]
    ELSE [zset |-> z, ttl |-> {at + ms}]

\* The member the script passes to ZADD: the number now, sent as a string.
Member(now) == ToString(now)

\* A key that lost its last member is removed together with its expiry.
KeepTTL(z, t) == IF z = {} THEN {} ELSE t

\* The script without its trim step.
SlidingWindowScript_NoTrim(z, t, now, window, limit, at) ==
    IF ZCARD(z) < limit
    THEN LET exp == PEXPIRE(ZADD(z, now, Member(now)), window * 2, at)
         IN  [trimmed |-> z, zset |-> exp.zset, ttl |-> exp.ttl, result |-> 1]
    ELSE [trimmed |-> z, zset |-> z, ttl |-> t, result |-> 0]

\* The script refreshing the expiry on a denial as well.
SlidingWindowScript_ExpireOnDeny(z, t, now, window, limit, at) ==
    LET trimmed == ZREMRANGEBYSCORE(z, NegInf, now - window)
        added   == IF ZCARD(trimmed) < limit
                   THEN ZADD(trimmed, now, Member(now)) ELSE trimmed
        exp     == PEXPIRE(added, window * 2, at)
    IN  [trimmed |-> trimmed, zset |-> exp.zset, ttl |-> exp.ttl,
         result |-> IF ZCARD(trimmed) < limit THEN 1 ELSE 0]

\* The script admitting while count <= limit.
SlidingWindowScript_OffByOne(z, t, now, window, limit, at) ==
    LET trimmed == ZREMRANGEBYSCORE(z, NegInf, now - window)
    IN  IF ZCARD(trimmed) <= limit
        THEN LET exp == PEXPIRE(ZADD(trimmed, now, Member(now)),
                                window * 2, at)
             IN  [trimmed |-> trimmed, zset |-> exp.zset, ttl |-> exp.ttl,
                  result |-> 1]
        ELSE [trimmed |-> trimmed, zset |-> trimmed,
              ttl |-> KeepTTL(trimmed, t), result |-> 0]

(***************************************************************************)
(* SLIDING_WINDOW_SCRIPT, rate_limiter.py lines 13-35, run on the sorted   *)
(* set z with expiry t at server time at.  The result carries the set      *)
(* after the trim, the final set and expiry, and the returned integer.     *)
(***************************************************************************)
SlidingWindowScript(z, t, now, window, limit, at) ==
    LET trimmed == ZREMRANGEBYSCORE(z, NegInf, now - window)
        count   == ZCARD(trimmed)
    IN  IF count < limit
        THEN LET added == ZADD(trimmed, now, Member(now))
                 exp   == PEXPIRE(added, window * 2, at)
             IN  [trimmed |-> trimmed, zset |-> exp.zset, ttl |-> exp.ttl,
                  result |-> 1]
        ELSE [trimmed |-> trimmed, zset |-> trimmed,
              ttl |-> KeepTTL(trimmed, t), result |-> 0]

\* bool(result), rate_limiter.py line 55
Bool(n) == n # 0

(***************************************************************************)
(* Inputs.  An environment fixes who calls and with what.                  *)
(***************************************************************************)
MkEnv(procs, pairs, limits, windows, times, calls) ==
    [procs |-> procs, pairs |-> pairs, limits |-> limits,
     windows |-> windows, times |-> times, calls |-> calls]

Procs == 1..MaxProcs
Times == 0..MaxTime

NoArgs == [op |-> "none"]
NoRet  == [op |-> "none"]

\* No request in the middleware.  active: between dispatch and response;
\* handler, requests, violations: how often call_next, log_request and
\* log_violation ran for the request; usage, usageAt, usageSeq: the value
\* get_current_usage returned, the time and the history length of the read.
NoRequest ==
    [active |-> FALSE, path |-> "", client_id |-> "", endpoint |-> "",
     handler |-> 0, requests |-> 0, violations |-> 0, status |-> 0,
     raised |-> FALSE, limit |-> "", remaining |-> "",
     usage |-> 0, usageAt |-> 0, usageSeq |-> 0]

InitWith(e) ==
    /\ env = e
    /\ clock = 0
    /\ store = [k \in Keys |-> {}]
    /\ ttl = [k \in Keys |-> {}]
    /\ pc = [p \in Procs |-> "idle"]
    /\ args = [p \in Procs |-> NoArgs]
    /\ ret = [p \in Procs |-> NoRet]
    /\ budget = [p \in Procs |-> IF p \in e.procs THEN e.calls ELSE 0]
    /\ hist = <<>>
    /\ mw = [p \in Procs |-> NoRequest]

\* One caller, one key, one limit and one window for the whole run.
SeqEnvs == {MkEnv({1}, {<<"a", "c">>}, {l}, {w}, Times, MaxCalls) :
                l \in 1..2, w \in 2..3}

Init == \E e \in SeqEnvs : InitWith(e)

\* N callers, one call each, on one key with one limit L < N.
ConcEnvs == {MkEnv(Procs, {<<"a", "c">>}, {l}, {w}, 0..2, 1) :
                l \in 1..(MaxProcs - 1), w \in {3}}

InitConc == \E e \in ConcEnvs : InitWith(e)

\* Two callers, several calls each, on one key with one limit.
RaceEnvs == {MkEnv({1, 2}, {<<"a", "c">>}, {l}, {2}, 0..1, MaxCalls - 2) :
                l \in 1..2}

InitRace == \E e \in RaceEnvs : InitWith(e)

\* One caller on several (client_id, endpoint) pairs.
KeysEnvs == {MkEnv({1}, {<<"a", "c">>, <<"a:b", "c">>, <<"a", "b:c">>,
                         <<"b", "c">>}, {1}, {2}, 0..2, MaxCalls - 1)}

InitKeys == \E e \in KeysEnvs : InitWith(e)

\* One caller on one key, limit and window chosen anew at every call.
VaryEnvs == {MkEnv({1}, {<<"a", "c">>}, 0..2, 2..3, 0..(MaxTime - 3),
                   MaxCalls - 1)}

InitVary == \E e \in VaryEnvs : InitWith(e)

\* One caller on one key, with a short and a long window.
\* The clock
\* stops just before and just after each expiry (2 * 1 and 2 * 4 after 0).
TtlEnvs == {MkEnv({1}, {<<"a", "c">>}, {1}, {1, 4}, {0, 1, 2, 3, 8, 9},
                  MaxCalls - 1)}

InitTtl == \E e \in TtlEnvs : InitWith(e)

\* The worked example: limit 3, window 1000 ms, calls at 0 .. 1100 ms.
ExampleNow  == <<0, 100, 200, 300, 1100>>
ExampleEnvs == {MkEnv({1}, {<<"a", "c">>}, {3}, {1000},
                      {ExampleNow[i] : i \in 1..Len(ExampleNow)},
                      Len(ExampleNow))}

InitExample == \E e \in ExampleEnvs : InitWith(e)

(***************************************************************************)
(* allow_request, rate_limiter.py lines 42-55.                             *)
(***************************************************************************)
\* lines 46-47: compose the key and read the clock
AllowRequestBegin(p) ==
    /\ p \in env.procs
    /\ pc[p] = "idle"
    /\ budget[p] > 0
    /\ \E pr \in env.pairs, limit \in env.limits, window_ms \in env.windows :
          args' = [args EXCEPT ![p] =
                     [op |-> "allow", pair |-> pr, key |-> Key(pr[1], pr[2]),
                      now_ms |-> clock, window_ms |-> window_ms,
                      limit |-> limit]]
    /\ pc' = [pc EXCEPT ![p] = "script"]
    /\ budget' = [budget EXCEPT ![p] = @ - 1]
    /\ UNCHANGED <<clock, store, ttl, ret, hist, env, mw>>

\* lines 50-55: the server runs the script atomically; the caller gets bool
\* (and is the middleware's caller when a request is being dispatched)
ScriptResult(p) ==
    LET a == args[p]
    IN  SlidingWindowScript(store[a.key], ttl[a.key], a.now_ms,
                            a.window_ms, a.limit, clock)

\* the server's part: the script's effect on the key (and the history)
Execute(p) ==
    LET a == args[p]
        r == ScriptResult(p)
    IN  /\ store' = [store EXCEPT ![a.key] = r.zset]
        /\ ttl' = [ttl EXCEPT ![a.key] = r.ttl]
        /\ hist' = Append(hist,
                        [proc |-> p, pair |-> a.pair, key |-> a.key,
                         now |-> a.now_ms, window |-> a.window_ms,
                         limit |-> a.limit, at |-> clock,
                         pending |-> {q \in Procs : pc[q] = "script"},
                         before |-> store[a.key], ttlBefore |-> ttl[a.key],
                         trimmed |-> r.trimmed,
                         after |-> r.zset, ttlAfter |-> r.ttl,
                         res |-> Bool(r.result)])

AllowRequestScript(p) ==
    /\ pc[p] = "script"
    /\ Execute(p)
    /\ ret' = [ret EXCEPT ![p] =
                 [op |-> "allow", val |-> Bool(ScriptResult(p).result),
                  seq |-> Len(hist) + 1]]
    /\ pc' = [pc EXCEPT ![p] = IF mw[p].active THEN "checked" ELSE "idle"]
    /\ UNCHANGED <<clock, args, budget, env, mw>>

\* A get_current_usage that also drops the entries older than the clock.
GetCurrentUsage_Trimming(p) ==
    /\ p \in env.procs
    /\ pc[p] = "idle"
    /\ \E pr \in env.pairs :
          LET key == Key(pr[1], pr[2])
              z   == ZREMRANGEBYSCORE(store[key], NegInf, clock - 1)
          IN  /\ ret' = [ret EXCEPT ![p] =
                           [op |-> "usage", pair |-> pr, key |-> key,
                            val |-> ZCARD(z), zset |-> z,
                            at |-> clock, seq |-> Len(hist)]]
              /\ store' = [store EXCEPT ![key] = z]
              /\ ttl' = [ttl EXCEPT ![key] = KeepTTL(z, @)]
    /\ UNCHANGED <<clock, pc, args, budget, hist, env, mw>>

(***************************************************************************)
(* get_current_usage, rate_limiter.py lines 57-60: one ZCARD.              *)
(***************************************************************************)
GetCurrentUsage(p) ==
    /\ p \in env.procs
    /\ pc[p] = "idle"
    /\ \E pr \in env.pairs :
          LET key == Key(pr[1], pr[2])
          IN  ret' = [ret EXCEPT ![p] =
                        [op |-> "usage", pair |-> pr, key |-> key,
                         val |-> ZCARD(store[key]), zset |-> store[key],
                         at |-> clock, seq |-> Len(hist)]]
    /\ UNCHANGED <<clock, store, ttl, pc, args, budget, hist, env, mw>>

(***************************************************************************)
(* Time passes.  The server never shows a key whose expiry has passed      *)
(* (PEXPIRE, rate_limiter.py line 30), so the key goes with the tick.      *)
(***************************************************************************)
\* A server that never removes a key.
Expired_Never(t, now) == FALSE

Expired(t, now) == \E d \in t : now > d

Tick ==
    /\ \E next \in env.times :
          /\ next > clock
          /\ \A u \in env.times : u > clock => next <= u
          /\ clock' = next
          /\ store' = [k \in Keys |->
                         IF Expired(ttl[k], next) THEN {} ELSE store[k]]
          /\ ttl' = [k \in Keys |->
                       IF Expired(ttl[k], next) THEN {} ELSE ttl[k]]
    /\ UNCHANGED <<pc, args, ret, budget, hist, env, mw>>

Next ==
    \/ \E p \in Procs : AllowRequestBegin(p)
    \/ \E p \in Procs : AllowRequestScript(p)
    \/ \E p \in Procs : GetCurrentUsage(p)
    \/ Tick

Spec == Init /\ [][Next]_vars

SpecConc == InitConc /\ [][Next]_vars

SpecRace == InitRace /\ [][Next]_vars

SpecTtl == InitTtl /\ [][Next]_vars

SpecKeys == InitKeys /\ [][Next]_vars

SpecVary == InitVary /\ [][Next]_vars

SpecExample == InitExample /\ [][Next]_vars

(***************************************************************************)
(* The HTTP service, main.py.  Each process serves one request at a time;  *)
(* the limiter calls are synchronous, the handler (call_next) is awaited,  *)
(* so other processes and the clock move between the steps below.          *)
(***************************************************************************)
DEFAULT_LIMIT == 100
DEFAULT_WINDOW == 60000

\* lines 14-22: the API key if the header is there and not empty, else the IP
get_client_id(api_key, client_host) ==
    IF api_key # "" THEN "key:" \o api_key ELSE "ip:" \o client_host

ApiKeys == {"", "k"}
Hosts == {"h"}
Paths == {"/health", "/api/resource"}

\* analytics.py lines 5-7 and 9-11: one log line per call
log_request(m) == [m EXCEPT !.requests = @ + 1]
log_violation(m) == [m EXCEPT !.violations = @ + 1]

\* the handler behind the middleware runs and answers 200
call_next(m) == [m EXCEPT !.handler = @ + 1, !.status = 200]

\* str() of a header value
Str(n) == ToString(n)

Max(a, b) == IF a >= b THEN a ELSE b

\* lines 27-28: /health goes straight to the handler
MwHealth(p) ==
    /\ p \in env.procs
    /\ pc[p] = "idle"
    /\ budget[p] > 0
    /\ "/health" \in Paths
    /\ mw' = [mw EXCEPT ![p] = call_next([NoRequest EXCEPT !.path = "/health"])]
    /\ budget' = [budget EXCEPT ![p] = @ - 1]
    /\ UNCHANGED <<clock, store, ttl, pc, args, ret, hist, env>>

\* lines 30-39 with rate_limiter.py lines 46-47: client, endpoint, then
\* allow_request composes the key and reads the clock
MwDispatch(p) ==
    /\ p \in env.procs
    /\ pc[p] = "idle"
    /\ budget[p] > 0
    /\ \E path \in Paths \ {"/health"}, api_key \in ApiKeys, host \in Hosts :
          LET client_id == get_client_id(api_key, host)
              endpoint  == path
          IN  /\ mw' = [mw EXCEPT ![p] =
                          [NoRequest EXCEPT !.active = TRUE, !.path = path,
                                            !.client_id = client_id,
                                            !.endpoint = endpoint]]
              /\ args' = [args EXCEPT ![p] =
                            [op |-> "allow", pair |-> <<client_id, endpoint>>,
                             key |-> Key(client_id, endpoint),
                             now_ms |-> clock, window_ms |-> DEFAULT_WINDOW,
                             limit |-> DEFAULT_LIMIT]]
    /\ pc' = [pc EXCEPT ![p] = "script"]
    /\ budget' = [budget EXCEPT ![p] = @ - 1]
    /\ UNCHANGED <<clock, store, ttl, ret, hist, env>>

\* A denial that still runs the handler.
MwDenied_CallsHandler(p) ==
    /\ pc[p] = "checked"
    /\ ~ret[p].val
    /\ mw' = [mw EXCEPT ![p] =
                [call_next(log_violation(@)) EXCEPT !.active = FALSE]]
    /\ pc' = [pc EXCEPT ![p] = "idle"]
    /\ UNCHANGED <<clock, store, ttl, args, ret, budget, hist, env>>

\* lines 41-46: not allowed: log the violation and answer 429
MwDenied(p) ==
    /\ pc[p] = "checked"
    /\ ~ret[p].val
    /\ mw' = [mw EXCEPT ![p] =
                [log_violation(@) EXCEPT !.status = 429, !.active = FALSE]]
    /\ pc' = [pc EXCEPT ![p] = "idle"]
    /\ UNCHANGED <<clock, store, ttl, args, ret, budget, hist, env>>

\* lines 48-51: allowed: log the request and run the handler
MwAllowed(p) ==
    /\ pc[p] = "checked"
    /\ ret[p].val
    /\ mw' = [mw EXCEPT ![p] = call_next(log_request(@))]
    /\ pc' = [pc EXCEPT ![p] = "handled"]
    /\ UNCHANGED <<clock, store, ttl, args, ret, budget, hist, env>>

\* lines 53-58: after the handler, read the usage and set the headers
MwHeaders(p) ==
    /\ pc[p] = "handled"
    /\ LET usage     == ZCARD(store[Key(mw[p].client_id, mw[p].endpoint)])
           remaining == DEFAULT_LIMIT - usage
       IN  mw' = [mw EXCEPT ![p] =
                    [@ EXCEPT !.limit = Str(DEFAULT_LIMIT),
                              !.remaining = Str(Max(0, remaining)),
                              !.usage = usage, !.usageAt = clock,
                              !.usageSeq = Len(hist), !.active = FALSE]]
    /\ pc' = [pc EXCEPT ![p] = "idle"]
    /\ UNCHANGED <<clock, store, ttl, args, ret, budget, hist, env>>

NextMw ==
    \/ \E p \in Procs : MwHealth(p)
    \/ \E p \in Procs : MwDispatch(p)
    \/ \E p \in Procs : AllowRequestScript(p)
    \/ \E p \in Procs : MwDenied(p)
    \/ \E p \in Procs : MwAllowed(p)
    \/ \E p \in Procs : MwHeaders(p)
    \/ Tick

\* The key of the client with the API key starts empty, one short of the
\* limit or at the limit (admissions at 1, 2, ... up to the starting time).
MwStart == DEFAULT_LIMIT

MwTimes == {MwStart, MwStart + 1, MwStart + 1 + DEFAULT_WINDOW,
            MwStart + 2 + 2 * DEFAULT_WINDOW}

MwEnvs == {MkEnv({1, 2}, {<<"key:k", "/api/resource">>,
                          <<"ip:h", "/api/resource">>},
                 {DEFAULT_LIMIT}, {DEFAULT_WINDOW}, MwTimes, 1)}

Prefill(n) == {[member |-> Member(s), score |-> s] : s \in 1..n}

\* the service at time start, after n admissions of the client with the key
InitFrom(e, start, n) ==
        /\ env = e
        /\ clock = start
        /\ store = [k \in Keys |->
                      IF k = Key("key:k", "/api/resource")
                      THEN Prefill(n) ELSE {}]
        /\ ttl = [k \in Keys |->
                    IF k = Key("key:k", "/api/resource") /\ n > 0
                    THEN {n + 2 * DEFAULT_WINDOW} ELSE {}]
        /\ pc = [p \in Procs |-> "idle"]
        /\ args = [p \in Procs |-> NoArgs]
        /\ ret = [p \in Procs |-> NoRet]
        /\ budget = [p \in Procs |-> IF p \in e.procs THEN e.calls ELSE 0]
        /\ hist = <<>>
        /\ mw = [p \in Procs |-> NoRequest]

InitMw ==
    \E e \in MwEnvs, n \in {0, DEFAULT_LIMIT - 1, DEFAULT_LIMIT} :
        InitFrom(e, MwStart, n)

SpecMw == InitMw /\ [][NextMw]_vars

(***************************************************************************)
(* Backend failures.  self.script(...) (rate_limiter.py lines 50-53) raises *)
(* when the store cannot be reached, the script errors or the reply does   *)
(* not arrive; neither allow_request nor the middleware (main.py line 34)  *)
(* catches anything, so the exception leaves both.                         *)
(***************************************************************************)
\* A failure answered as a denial.
RaisedError_FailClosed(seq) == [op |-> "allow", val |-> FALSE, seq |-> seq]

\* what the caller of allow_request gets: the exception, no bool
RaisedError(seq) == [op |-> "error", seq |-> seq]

\* the request never ran on the server
ScriptUnreachable(p) ==
    /\ pc[p] = "script"
    /\ pc' = [pc EXCEPT ![p] = "failed"]
    /\ UNCHANGED <<clock, store, ttl, args, ret, budget, hist, env, mw>>

\* the script ran on the server, its reply was lost
ScriptReplyLost(p) ==
    /\ pc[p] = "script"
    /\ Execute(p)
    /\ pc' = [pc EXCEPT ![p] = "failed"]
    /\ UNCHANGED <<clock, args, ret, budget, env, mw>>

\* the exception propagates out of allow_request and out of the middleware
AllowRequestRaise(p) ==
    /\ pc[p] = "failed"
    /\ ret' = [ret EXCEPT ![p] = RaisedError(Len(hist))]
    /\ mw' = [mw EXCEPT ![p] =
                IF @.active THEN [@ EXCEPT !.active = FALSE, !.raised = TRUE]
                ELSE @]
    /\ pc' = [pc EXCEPT ![p] = "idle"]
    /\ UNCHANGED <<clock, store, ttl, args, budget, hist, env>>

\* Direct callers and HTTP requests, with a backend that can fail.
NextFail ==
    \/ Next
    \/ NextMw
    \/ \E p \in Procs : ScriptUnreachable(p)
    \/ \E p \in Procs : ScriptReplyLost(p)
    \/ \E p \in Procs : AllowRequestRaise(p)

FailEnvs == {MkEnv({1}, {<<"a", "c">>}, {1}, {2},
                   MwStart..(MwStart + 2), MaxCalls - 2)}

InitFail ==
    \E e \in FailEnvs, n \in {0, DEFAULT_LIMIT} : InitFrom(e, MwStart, n)

SpecFail == InitFail /\ [][NextFail]_vars

TypeOK ==
    /\ clock \in env.times
    /\ \A k \in Keys : \A e \in store[k] : e.member = Member(e.score)
    /\ \A k \in Keys : Cardinality(ttl[k]) <= 1
    /\ \A k \in Keys : store[k] = {} => ttl[k] = {}
    /\ \A p \in Procs :
          pc[p] \in {"idle", "script", "failed", "checked", "handled"}

(***************************************************************************)
(* Reading the history.                                                    *)
(***************************************************************************)
Calls == 1..Len(hist)

Scores(z) == {e.score : e \in z}
Members(z) == {e.member : e \in z}
MinScore(z) == CHOOSE s \in Scores(z) : \A u \in Scores(z) : s <= u

Admitted == {i \in Calls : hist[i].res}

\* the calls i-n .. i-1 exist and were all admitted
AdmittedRun(i, n) == i > n /\ \A j \in (i - n)..(i - 1) : hist[j].res

UsageReturned(p) == ret[p].op = "usage"

(***************************************************************************)
(* C1: N callers invoke allow_request at once on one key with limit L < N, *)
(* from an empty window and all within one window: never more than L of    *)
(* the calls return true, and once all have returned exactly L did.        *)
(***************************************************************************)
Simultaneous ==
    /\ hist # <<>>
    /\ hist[1].pending = env.procs
    /\ hist[1].before = {}
    /\ \A i, j \in Calls : hist[i].now - hist[j].now < hist[i].window

C1_ExactlyLimitAdmitted ==
    Simultaneous =>
        \A l \in env.limits :
            /\ Cardinality(Admitted) <= l
            /\ (Len(hist) = Cardinality(env.procs) /\ l < Len(hist))
                  => Cardinality(Admitted) = l

(***************************************************************************)
(* C2: once `limit` consecutive calls were admitted within one window, the *)
(* next call within that same window is denied, whatever the timestamps    *)
(* (equal ones included).                                                  *)
(***************************************************************************)
C2_NextCallDenied ==
    \A i \in Calls :
        LET h == hist[i]
        IN  (/\ h.limit >= 1
             /\ AdmittedRun(i, h.limit)
             /\ \A j \in (i - h.limit)..(i - 1) :
                    /\ hist[j].now <= h.now
                    /\ h.now - hist[j].now < h.window
                    /\ h.at - hist[j].now < h.window)
            => ~h.res

(***************************************************************************)
(* C3 as stated: a call made more than window_ms after the first admitted  *)
(* call of the key is admitted.                                            *)
(***************************************************************************)
FirstAdmitted == CHOOSE i \in Admitted : \A j \in Admitted : i <= j

C3_AdmittedAfterFirstAdmission ==
    \A i \in Calls :
        (/\ Admitted # {}
         /\ FirstAdmitted < i
         /\ hist[i].now > hist[FirstAdmitted].now + hist[i].window)
        => hist[i].res

(***************************************************************************)
(* C3 amended: a call made more than window_ms after the oldest admitted   *)
(* call still stored for the key is admitted, because that entry is        *)
(* trimmed before the count.                                               *)
(***************************************************************************)
AfterOldestStored(h) ==
    h.before # {} /\ h.now > MinScore(h.before) + h.window

C3_AdmittedAfterOldestStored ==
    \A i \in Calls : AfterOldestStored(hist[i]) => hist[i].res

\* the quota was exhausted, a call was denied, and the late call got in
C3_Witness ==
    \E i \in Calls :
        /\ AfterOldestStored(hist[i])
        /\ ZCARD(hist[i].before) = hist[i].limit
        /\ hist[i].trimmed # {}
        /\ \E j \in 1..(i - 1) : ~hist[j].res
        /\ hist[i].res

(***************************************************************************)
(* C4: for any two distinct (client_id, endpoint) pairs, a call on one     *)
(* pair leaves what is stored for the other pair (its entries and expiry,  *)
(* hence its decisions and its usage) unchanged.                           *)
(***************************************************************************)
ScriptStep(p) == pc[p] = "script" /\ pc'[p] = "idle"

C4_PairsIndependent ==
    [][\A p \in Procs :
          ScriptStep(p) =>
              \A pr \in env.pairs :
                  pr # args[p].pair =>
                      /\ store'[Key(pr[1], pr[2])] = store[Key(pr[1], pr[2])]
                      /\ ttl'[Key(pr[1], pr[2])] = ttl[Key(pr[1], pr[2])]]_vars

(***************************************************************************)
(* C5: every admitted call adds exactly one new member: the member it      *)
(* inserts is not yet stored and the cardinality grows by one.             *)
(***************************************************************************)
C5_AdmissionAddsMember ==
    \A i \in Admitted :
        /\ Member(hist[i].now) \notin Members(hist[i].trimmed)
        /\ ZCARD(hist[i].after) = ZCARD(hist[i].trimmed) + 1

(***************************************************************************)
(* C6: single-threaded, after m admitted calls (m <= limit) all within one *)
(* window, get_current_usage returns exactly m.                            *)
(***************************************************************************)
C6_UsageIsAdmittedCount ==
    \A p \in Procs :
        (/\ UsageReturned(p)
         /\ ret[p].seq = Len(hist)
         /\ Admitted = Calls
         /\ \A i \in Calls :
               /\ Len(hist) <= hist[i].limit
               /\ hist[i].key = ret[p].key
               /\ ret[p].at - hist[1].now < hist[i].window)
        => ret[p].val = Len(hist)

(***************************************************************************)
(* C7 as stated: limit 3, window 1000 ms, empty key.  The calls at 0, 100  *)
(* and 200 are admitted and usage is 3; the call at 300 is denied and      *)
(* usage stays 3; the call at 1100 is admitted and usage is then 1.        *)
(***************************************************************************)
OnExample ==
    /\ Len(hist) <= Len(ExampleNow)
    /\ \A i \in Calls : hist[i].now = ExampleNow[i]

ExampleRes == <<TRUE, TRUE, TRUE, FALSE, TRUE>>

ExampleHolds(usage) ==
    OnExample =>
        /\ \A i \in Calls : hist[i].res = ExampleRes[i]
        /\ \A p \in Procs :
              (UsageReturned(p) /\ ret[p].seq = Len(hist) /\ Len(hist) >= 3)
              => ret[p].val = usage[Len(hist)]

C7_ExampleUsageOne == ExampleHolds(<<1, 2, 3, 3, 1>>)

(***************************************************************************)
(* C7 amended: the same run, but after the admitted call at 1100 the usage *)
(* is 2: the entry of t=200 is still inside the window (100, 1100].        *)
(***************************************************************************)
C7_ExampleUsageTwo == ExampleHolds(<<1, 2, 3, 3, 2>>)

C7_Witness ==
    /\ OnExample
    /\ Len(hist) = Len(ExampleNow)
    /\ hist[5].res
    /\ UsageReturned(1) /\ ret[1].seq = 5 /\ ret[1].val = 2

(***************************************************************************)
(* C8 as stated: the trim removes exactly the entries with score strictly  *)
(* below now - window_ms; an entry at now - window_ms is kept.             *)
(***************************************************************************)
C8_TrimKeepsBoundary ==
    \A i \in Calls :
        hist[i].trimmed =
            {e \in hist[i].before : e.score >= hist[i].now - hist[i].window}

(***************************************************************************)
(* C8 amended: the trim removes exactly the entries with score at most     *)
(* now - window_ms; an entry at now - window_ms is removed and not         *)
(* counted, and every remaining score is above now - window_ms.            *)
(***************************************************************************)
C8_TrimRemovesBoundary ==
    \A i \in Calls :
        hist[i].trimmed =
            {e \in hist[i].before : e.score > hist[i].now - hist[i].window}

\* a call found an entry exactly window_ms old, and a younger one
C8_Witness ==
    \E i \in Calls :
        /\ \E e \in hist[i].before :
              e.score = hist[i].now - hist[i].window /\ e \notin hist[i].trimmed
        /\ hist[i].trimmed # {}

(***************************************************************************)
(* C9 as stated: a denied call leaves the key's entries and expiry as they *)
(* were, whatever limit and window_ms it passes.                           *)
(***************************************************************************)
Untouched(h) == h.after = h.before /\ h.ttlAfter = h.ttlBefore

C9_DeniedLeavesState ==
    \A i \in Calls : ~hist[i].res => Untouched(hist[i])

(***************************************************************************)
(* C9 amended: a denied call leaves the key's entries and expiry as they   *)
(* were provided the limit it passes is not below the number of entries    *)
(* stored before the call (as when every call passes the same limit), for  *)
(* every window_ms; with a smaller limit the trim may have removed         *)
(* entries.                                                                *)
(***************************************************************************)
C9_DeniedLeavesStateAtLimit ==
    \A i \in Calls :
        (~hist[i].res /\ hist[i].limit >= ZCARD(hist[i].before))
        => Untouched(hist[i])

\* a denial on a full key, after calls with another limit and window
C9_Witness ==
    \E i \in Calls :
        /\ ~hist[i].res
        /\ hist[i].before # {}
        /\ hist[i].limit = ZCARD(hist[i].before)
        /\ hist[i].at > hist[i - 1].at
        /\ \E j \in 1..(i - 1) :
              hist[j].limit # hist[i].limit /\ hist[j].window # hist[i].window

(***************************************************************************)
(* C10: the value get_current_usage returns at time t counts no entry      *)
(* whose score is below t - window_ms.                                     *)
(***************************************************************************)
C10_UsageCountsNoExpired ==
    \A p \in Procs :
        UsageReturned(p) =>
            \A w \in env.windows :
                \A e \in ret[p].zset : e.score >= ret[p].at - w
(***************************************************************************)
(* C11: allow_request with a non-positive limit or window_ms is rejected   *)
(* before the store is contacted: the script never runs with such          *)
(* arguments.                                                              *)
(***************************************************************************)
C11_InvalidConfigNeverRuns ==
    \A i \in Calls : hist[i].limit > 0 /\ hist[i].window > 0

(***************************************************************************)
(* C13: once the server has removed an idle key (its expiry of             *)
(* 2 x window_ms passed), the next allow_request behaves as a first call   *)
(* on an empty window: it is admitted (limit >= 1) and leaves exactly one  *)
(* entry, with an expiry of 2 x window_ms.                                 *)
(***************************************************************************)
KeyExpiredBefore(i) ==
    /\ i > 1
    /\ hist[i - 1].key = hist[i].key
    /\ \E d \in hist[i - 1].ttlAfter : hist[i].at > d

C13_FreshAfterExpiry ==
    \A i \in Calls :
        (KeyExpiredBefore(i) /\ hist[i].limit >= 1)
        => /\ hist[i].res
           /\ hist[i].before = {}
           /\ hist[i].after = {[member |-> Member(hist[i].now),
                                score |-> hist[i].now]}
           /\ hist[i].ttlAfter = {hist[i].at + 2 * hist[i].window}

\* the key was full when it was left idle, and the call that found it
\* gone carries a timestamp from before the removal
C13_Witness ==
    \E i \in Calls :
        /\ KeyExpiredBefore(i)
        /\ ZCARD(hist[i - 1].after) = hist[i].limit
        /\ ~hist[i - 1].res
        /\ \E d \in hist[i - 1].ttlAfter : hist[i].now <= d
        /\ hist[i].res

(***************************************************************************)
(* C14: after each admitted call the key's expiry is exactly               *)
(* 2 x window_ms of that call, and in every state a key that holds an      *)
(* entry has an expiry set.                                                *)
(***************************************************************************)
C14_EntriesHaveExpiry ==
    /\ \A k \in Keys : store[k] # {} => ttl[k] # {}
    /\ \A i \in Admitted :
          hist[i].ttlAfter = {hist[i].at + 2 * hist[i].window}

\* an admission re-marked a key that already had an expiry, with another
\* window, and a later denial left that expiry in place
C14_Witness ==
    \E i \in Admitted :
        /\ hist[i].ttlBefore # {}
        /\ hist[i].ttlAfter # hist[i].ttlBefore
        /\ \E j \in Admitted : j < i /\ hist[j].window # hist[i].window
        /\ i < Len(hist) /\ ~hist[Len(hist)].res
        /\ ttl[hist[i].key] = hist[i].ttlAfter
        /\ store[hist[i].key] # {}

(***************************************************************************)
(* C17: a key always called with the same limit never holds more entries   *)
(* than that limit, under any interleaving of calls from any number of     *)
(* processes.                                                              *)
(***************************************************************************)
C17_EntriesWithinLimit ==
    \A k \in Keys : \A l \in env.limits : ZCARD(store[k]) <= l

\* the key is full, calls overlapped, and one of them was denied
C17_Witness ==
    \E i \in Calls :
        /\ ~hist[i].res
        /\ Cardinality(hist[1].pending) > 1
        /\ \A l \in env.limits : ZCARD(store[hist[i].key]) = l /\ l > 1

(***************************************************************************)
(* C18: with script executions in non-decreasing timestamp order, at every *)
(* admitted call with timestamp now the admitted calls (this one included) *)
(* with timestamp in (now - window_ms, now] number at most limit.          *)
(***************************************************************************)
NonDecreasing == \A i, j \in Calls : i <= j => hist[i].now <= hist[j].now

AdmittedInWindow(i) ==
    {j \in Admitted : /\ j <= i
                      /\ hist[j].now > hist[i].now - hist[i].window
                      /\ hist[j].now <= hist[i].now}

C18_WindowBound ==
    NonDecreasing =>
        \A i \in Admitted :
            Cardinality(AdmittedInWindow(i)) <= hist[i].limit
(***************************************************************************)
(* C15: get_current_usage has no side effects: it leaves every key's       *)
(* entries and expiry as they were (no trim, no refresh) and runs no       *)
(* script.                                                                 *)
(***************************************************************************)
UsageStep(p) == ret'[p] # ret[p] /\ ret'[p].op = "usage"

C15_UsageHasNoSideEffects ==
    [][\A p \in Procs :
          UsageStep(p) => store' = store /\ ttl' = ttl /\ hist' = hist]_vars

\* a usage read that counted an entry older than the window and left it
C15_Witness ==
    \E p \in Procs :
        /\ UsageReturned(p)
        /\ ret[p].seq = Len(hist)
        /\ store[ret[p].key] = ret[p].zset
        /\ \E e \in ret[p].zset, w \in env.windows : e.score < ret[p].at - w

(***************************************************************************)
(* C19 as stated: when the server removes a key at time T because its      *)
(* expiry elapsed, every entry in it has score <= T - window_ms for the    *)
(* window_ms of any later call, also when calls pass different windows.    *)
(***************************************************************************)
RemovedByExpiry(k) == store[k] # {} /\ store'[k] = {} /\ clock' > clock

C19_ExpiryDiscardsNoQuota ==
    [][\A k \in Keys :
          RemovedByExpiry(k) =>
              \A e \in store[k], w \in env.windows : e.score <= clock' - w]_vars
(***************************************************************************)
(* C16: in the middleware, for a request whose path is not /health the     *)
(* handler runs only after allow_request returned true for that request;   *)
(* when allow_request returned false the handler never runs, the response  *)
(* is 429 and exactly one violation and no allowed request is logged; a    *)
(* request to /health reaches the handler without an allow_request call    *)
(* and without touching any key.                                           *)
(***************************************************************************)
\* the allow_request of p's current request has returned
Checked(p) == mw[p].path \notin {"", "/health"} /\ pc[p] # "script"

\* p's current request is answered
Answered(p) == mw[p].path # "" /\ pc[p] = "idle"

OwnScript(p) ==
    /\ ret[p].op = "allow"
    /\ hist[ret[p].seq].proc = p
    /\ hist[ret[p].seq].key = Key(mw[p].client_id, mw[p].endpoint)
    /\ hist[ret[p].seq].res = ret[p].val

HealthStep(p) == mw'[p] # mw[p] /\ mw'[p].path = "/health"

C16_HandlerOnlyWhenAllowed ==
    /\ [](\A p \in Procs :
            /\ (mw[p].path \notin {"", "/health"} /\ mw[p].handler > 0)
                  => /\ Checked(p) /\ OwnScript(p) /\ ret[p].val
                     /\ mw[p].handler = 1
            /\ (Checked(p) /\ ~ret[p].val)
                  => /\ OwnScript(p)
                     /\ mw[p].handler = 0 /\ mw[p].requests = 0
                     /\ Answered(p) => /\ mw[p].status = 429
                                       /\ mw[p].violations = 1
            /\ (mw[p].path = "/health")
                  => mw[p].handler = 1 /\ mw[p].status = 200)
    /\ [][\A p \in Procs :
            HealthStep(p) =>
                /\ store' = store /\ ttl' = ttl /\ hist' = hist
                /\ pc'[p] = "idle" /\ args' = args /\ ret' = ret]_vars

\* one request was denied and answered 429 while a /health request was served
C16_Witness ==
    \E p, q \in Procs :
        /\ Checked(p) /\ ~ret[p].val /\ Answered(p)
        /\ mw[q].path = "/health"
        /\ ZCARD(store[Key(mw[p].client_id, mw[p].endpoint)]) = DEFAULT_LIMIT

(***************************************************************************)
(* C20 as stated: for every admitted request that is not /health, the      *)
(* X-RateLimit-Remaining header of its response is an integer in           *)
(* 0..DEFAULT_LIMIT-1: the request's own admission is always reflected in  *)
(* the usage read after the handler.                                       *)
(***************************************************************************)
\* p's request was admitted and its response carries the headers
Served(p) == Checked(p) /\ ret[p].val /\ Answered(p)

C20_RemainingBelowLimit ==
    \A p \in Procs :
        Served(p) => mw[p].remaining \in {Str(n) : n \in 0..(DEFAULT_LIMIT - 1)}

(***************************************************************************)
(* C20 amended: for every admitted request that is not /health, the        *)
(* X-RateLimit-Remaining header is an integer in 0..DEFAULT_LIMIT, equal   *)
(* to max(0, DEFAULT_LIMIT - get_current_usage) read after the handler     *)
(* ran; under any interleaving it is strictly below DEFAULT_LIMIT when the *)
(* usage is read no later than 2 * DEFAULT_WINDOW ms after the request's   *)
(* script ran (while the key has not expired), and it is DEFAULT_LIMIT     *)
(* only when the key was gone at the read.                                 *)
(***************************************************************************)
HeadersStep(p) == pc[p] = "handled" /\ pc'[p] = "idle"

C20_RemainingWithinLimit ==
    /\ [](\A p \in Procs :
            Served(p) =>
                /\ mw[p].remaining \in {Str(n) : n \in 0..DEFAULT_LIMIT}
                /\ mw[p].limit = Str(DEFAULT_LIMIT)
                /\ mw[p].remaining = Str(Max(0, DEFAULT_LIMIT - mw[p].usage))
                /\ mw[p].handler = 1
                /\ mw[p].usageAt <= hist[ret[p].seq].at + 2 * DEFAULT_WINDOW
                      => mw[p].remaining # Str(DEFAULT_LIMIT)
                /\ mw[p].remaining = Str(DEFAULT_LIMIT) => mw[p].usage = 0)
    /\ [][\A p \in Procs :
            HeadersStep(p) =>
                mw'[p].usage = ZCARD(store[Key(mw[p].client_id,
                                               mw[p].endpoint)])]_vars

\* a request was admitted, another request's script ran on the same key
\* before the usage was read, and the header says nothing remains
C20_Witness ==
    \E p \in Procs :
        /\ Served(p)
        /\ mw[p].usageSeq > ret[p].seq
        /\ \E j \in Calls :
              /\ j > ret[p].seq /\ j <= mw[p].usageSeq
              /\ hist[j].proc # p /\ hist[j].key = hist[ret[p].seq].key
        /\ mw[p].remaining = Str(0)

(***************************************************************************)
(* C12: when the backend is unreachable, the script fails or its reply is  *)
(* lost, allow_request gives its caller an error that is neither true nor  *)
(* false, without running the script again (at most one script execution   *)
(* per call); the middleware passes the error on: no handler, no 429, no   *)
(* log line.                                                               *)
(***************************************************************************)
RaiseStep(p) == pc[p] = "failed" /\ pc'[p] # "failed"

ExecutionsOf(p) == {i \in Calls : hist[i].proc = p}

C12_FailureSurfaced ==
    /\ [][\A p \in Procs :
            RaiseStep(p) =>
                /\ ret'[p].op = "error"
                /\ pc'[p] = "idle"
                /\ hist' = hist /\ store' = store /\ ttl' = ttl
                /\ mw[p].active =>
                      /\ mw'[p].raised /\ mw'[p].status = 0
                      /\ mw'[p].handler = 0
                      /\ mw'[p].requests = 0 /\ mw'[p].violations = 0]_vars
    /\ [](\A p \in Procs :
            Cardinality(ExecutionsOf(p)) <= env.calls - budget[p])

\* an HTTP request whose script admitted it on the server but whose reply
\* was lost: the caller has the error, the entry is stored
C12_Witness ==
    \E p \in Procs :
        /\ pc[p] = "idle"
        /\ ret[p].op = "error"
        /\ mw[p].raised
        /\ ret[p].seq > 0
        /\ hist[ret[p].seq].proc = p /\ hist[ret[p].seq].res
        /\ store[hist[ret[p].seq].key] # {}
====
